---- MODULE Spec2Model ----
(***************************************************************************)
(* A model of fix_encoding.py: a loop over a list of paths that reads each *)
(* file as UTF-8 text, strips U+FEFF, replaces &apos; &quot; &amp; (in     *)
(* that order), writes the text back with newline='\r\n' and prints one    *)
(* line per file, catching every exception per file.                       *)
(*                                                                         *)
(* A text is a sequence of characters, each character a string.  The file  *)
(* system is a function from paths to the character sequence stored (the   *)
(* decoded bytes; FF stands for a byte that is not valid UTF-8) and the    *)
(* set of paths that exist.                                                *)
(***************************************************************************)
EXTENDS Integers, Sequences, FiniteSets, TLC

VARIABLES files_to_fix,  \* the path list
          exists,        \* the paths that name a file
          disk,          \* path -> characters stored in the file
          handles,       \* the open file objects, <<path, mode>>
          content,       \* the variable content
          i,             \* index of the list entry of the for loop
          r,             \* index of the next replace line (23..26)
          pc,            \* position in the script
          out,           \* the lines printed
          snap,          \* entry -> the characters f.read() was given
          fault          \* entry -> the operation that raised, or "none"

vars == <<files_to_fix, exists, disk, handles, content, i, r, pc, out, snap, fault>>

----------------------------------------------------------------------------
(* Bounds *)

MaxPaths == 2

MaxFrags == 3

----------------------------------------------------------------------------
(* Characters and texts *)

BOM == "FEFF"

CR == "CR"

LF == "LF"

BAD == "FF"

APOS == <<"&", "a", "p", "o", "s", ";">>

QUOT == <<"&", "q", "u", "o", "t", ";">>

AMP == <<"&", "a", "m", "p", ";">>

(* str.replace(pat, rep) for a non-empty pat: the occurrences of pat, found
   left to right and not overlapping, are each replaced by rep. *)
RECURSIVE Replace(_, _, _)
ReplaceDropTail(s, pat, rep) ==
  IF Len(s) < Len(pat) THEN <<>>
  ELSE IF SubSeq(s, 1, Len(pat)) = pat
       THEN rep \o Replace(SubSeq(s, Len(pat) + 1, Len(s)), pat, rep)
       ELSE <<s[1]>> \o Replace(Tail(s), pat, rep)

Replace(s, pat, rep) ==
  IF Len(s) < Len(pat) THEN s
  ELSE IF SubSeq(s, 1, Len(pat)) = pat
       THEN rep \o Replace(SubSeq(s, Len(pat) + 1, Len(s)), pat, rep)
       ELSE <<s[1]>> \o Replace(Tail(s), pat, rep)

(* The four replace lines, in the order of the script. *)
RulesNoBom ==
  << <<APOS, <<"'">> >>, <<APOS, <<"'">> >>, <<QUOT, <<"\"">> >>, <<AMP, <<"&">> >> >>

RulesAmpFirst ==
  << << <<BOM>>, <<>> >>, <<AMP, <<"&">> >>, <<APOS, <<"'">> >>, <<QUOT, <<"\"">> >> >>

RulesNoApos ==
  << << <<BOM>>, <<>> >>, <<QUOT, <<"\"">> >>, <<QUOT, <<"\"">> >>, <<AMP, <<"&">> >> >>

Rules ==
  << << <<BOM>>, <<>> >>, <<APOS, <<"'">> >>, <<QUOT, <<"\"">> >>, <<AMP, <<"&">> >> >>

(* open(path, 'r', encoding='utf-8').read(): newline=None, so "\r\n" and a
   lone "\r" are both read as "\n". *)
RECURSIVE ReadText(_)
ReadTextRaw(b) == b

ReadText(b) ==
  IF b = <<>> THEN <<>>
  ELSE IF b[1] = CR
       THEN IF Len(b) >= 2 /\ b[2] = LF
            THEN <<LF>> \o ReadText(SubSeq(b, 3, Len(b)))
            ELSE <<LF>> \o ReadText(Tail(b))
       ELSE <<b[1]>> \o ReadText(Tail(b))

(* The utf-8 codec raises UnicodeDecodeError on an invalid byte. *)
Decodable(b) == \A k \in 1..Len(b) : b[k] # BAD

(* open(path, 'w', encoding='utf-8', newline='\r\n').write(t): every "\n"
   written becomes "\r\n", nothing else is changed. *)
RECURSIVE WriteBytes(_)
WriteBytesRaw(t) == t

WriteBytes(t) ==
  IF t = <<>> THEN <<>>
  ELSE (IF t[1] = LF THEN <<CR, LF>> ELSE <<t[1]>>) \o WriteBytes(Tail(t))

(* Leaving a with block, normally or by an exception, closes its file. *)
ReleaseLeak(hs, h) == hs

Release(hs, h) == hs \ {h}

(* Where an exception raised inside the try block continues. *)
OnExceptionAbort == "final"

OnExceptionWrite == "open_w"

OnException == "except"

----------------------------------------------------------------------------
(* The script *)

Paths == {"p1", "p2"}

N == Len(files_to_fix)

file_path == files_to_fix[i]

Raise(op) ==
  /\ pc' = OnException
  /\ fault' = [fault EXCEPT ![i] = op]

(* for file_path in files_to_fix *)
ForNext ==
  /\ pc = "for"
  /\ i <= N
  /\ pc' = "open_r"
  /\ UNCHANGED <<files_to_fix, exists, disk, handles, content, i, r, out, snap, fault>>

ForEnd ==
  /\ pc = "for"
  /\ i > N
  /\ pc' = "final"
  /\ UNCHANGED <<files_to_fix, exists, disk, handles, content, i, r, out, snap, fault>>

(* with open(file_path, 'r', encoding='utf-8') as f *)
OpenReadOK ==
  /\ pc = "open_r"
  /\ file_path \in exists
  /\ handles' = handles \cup {<<file_path, "r">>}
  /\ pc' = "read"
  /\ UNCHANGED <<files_to_fix, exists, disk, content, i, r, out, snap, fault>>

(* FileNotFoundError when the path names no file; PermissionError and the
   like may be raised for a file that exists. *)
OpenReadFail ==
  /\ pc = "open_r"
  /\ Raise("open_r")
  /\ UNCHANGED <<files_to_fix, exists, disk, handles, content, i, r, out, snap>>

(* content = f.read() *)
ReadOK ==
  /\ pc = "read"
  /\ Decodable(disk[file_path])
  /\ content' = ReadText(disk[file_path])
  /\ snap' = [snap EXCEPT ![i] = disk[file_path]]
  /\ pc' = "close_r"
  /\ UNCHANGED <<files_to_fix, exists, disk, handles, i, r, out, fault>>

ReadFail ==
  /\ pc = "read"
  /\ ~Decodable(disk[file_path])
  /\ handles' = Release(handles, <<file_path, "r">>)
  /\ Raise("read")
  /\ UNCHANGED <<files_to_fix, exists, disk, content, i, r, out, snap>>

(* the end of the first with block *)
CloseRead ==
  /\ pc = "close_r"
  /\ handles' = Release(handles, <<file_path, "r">>)
  /\ pc' = "replace"
  /\ r' = 1
  /\ UNCHANGED <<files_to_fix, exists, disk, content, i, out, snap, fault>>

(* content = content.replace(pattern, replacement), lines 23 to 26 *)
Substitute ==
  /\ pc = "replace"
  /\ content' = Replace(content, Rules[r][1], Rules[r][2])
  /\ IF r < Len(Rules)
     THEN r' = r + 1 /\ pc' = pc
     ELSE r' = 1 /\ pc' = "open_w"
  /\ UNCHANGED <<files_to_fix, exists, disk, handles, i, out, snap, fault>>

(* with open(file_path, 'w', encoding='utf-8', newline='\r\n') as f: mode
   'w' truncates the file. *)
OpenWriteOK ==
  /\ pc = "open_w"
  /\ handles' = handles \cup {<<file_path, "w">>}
  /\ disk' = [disk EXCEPT ![file_path] = <<>>]
  /\ exists' = exists \cup {file_path}
  /\ pc' = "write"
  /\ UNCHANGED <<files_to_fix, content, i, r, out, snap, fault>>

OpenWriteFail ==
  /\ pc = "open_w"
  /\ Raise("open_w")
  /\ UNCHANGED <<files_to_fix, exists, disk, handles, content, i, r, out, snap>>

(* f.write(content) *)
WriteOK ==
  /\ pc = "write"
  /\ disk' = [disk EXCEPT ![file_path] = WriteBytes(content)]
  /\ pc' = "close_w"
  /\ UNCHANGED <<files_to_fix, exists, handles, content, i, r, out, snap, fault>>

(* OSError while writing or flushing: a proper prefix of the text is left
   in the file. *)
WriteFail ==
  /\ pc = "write"
  /\ \E n \in 0..(Len(WriteBytes(content)) - 1) :
       disk' = [disk EXCEPT ![file_path] = SubSeq(WriteBytes(content), 1, n)]
  /\ handles' = Release(handles, <<file_path, "w">>)
  /\ Raise("write")
  /\ UNCHANGED <<files_to_fix, exists, content, i, r, out, snap>>

(* the end of the second with block *)
CloseWrite ==
  /\ pc = "close_w"
  /\ handles' = Release(handles, <<file_path, "w">>)
  /\ pc' = "print_fixed"
  /\ UNCHANGED <<files_to_fix, exists, disk, content, i, r, out, snap, fault>>

(* print(f"Fixed: {file_path}") *)
PrintFixed ==
  /\ pc = "print_fixed"
  /\ out' = Append(out, <<"Fixed", file_path>>)
  /\ i' = i + 1
  /\ pc' = "for"
  /\ UNCHANGED <<files_to_fix, exists, disk, handles, content, r, snap, fault>>

(* except Exception as e: print(f"Error fixing {file_path}: {e}") *)
PrintErrorSilent ==
  /\ pc = "except"
  /\ i' = i + 1
  /\ pc' = "for"
  /\ UNCHANGED <<files_to_fix, exists, disk, handles, content, out, r, snap, fault>>

PrintError ==
  /\ pc = "except"
  /\ out' = Append(out, <<"Error", file_path>>)
  /\ i' = i + 1
  /\ pc' = "for"
  /\ UNCHANGED <<files_to_fix, exists, disk, handles, content, r, snap, fault>>

(* print("\nAll files processed!") *)
PrintDone ==
  /\ pc = "final"
  /\ out' = Append(out, <<"All files processed!", "">>)
  /\ pc' = "done"
  /\ UNCHANGED <<files_to_fix, exists, disk, handles, content, i, r, snap, fault>>

----------------------------------------------------------------------------
(* Specifications *)

RECURSIVE SeqsUpTo(_, _)
SeqsUpTo(S, n) ==
  IF n = 0 THEN {<<>>}
  ELSE SeqsUpTo(S, n - 1) \cup
       {Append(q, x) : q \in {q \in SeqsUpTo(S, n - 1) : Len(q) = n - 1}, x \in S}

(* File contents of the batch runs: clean text, a BOM and an entity with an
   LF terminator, a lone CR, and a byte that is not UTF-8. *)
Samples ==
  { <<"x">>,
    <<BOM, "&", "a", "m", "p", ";", LF>>,
    <<"x", CR, "y">>,
    <<BAD>> }

Start ==
  /\ handles = {}
  /\ content = <<>>
  /\ i = 1
  /\ r = 1
  /\ pc = "for"
  /\ out = <<>>
  /\ snap = [k \in 1..N |-> <<>>]
  /\ fault = [k \in 1..N |-> "none"]

Init ==
  /\ files_to_fix \in SeqsUpTo(Paths, MaxPaths)
  /\ exists \in SUBSET Paths
  /\ disk \in [Paths -> Samples \cup {<<>>}]
  /\ \A p \in Paths : p \in exists <=> disk[p] # <<>>
  /\ Start

Next ==
  \/ ForNext \/ ForEnd
  \/ OpenReadOK \/ OpenReadFail
  \/ ReadOK \/ ReadFail
  \/ CloseRead
  \/ Substitute
  \/ OpenWriteOK \/ OpenWriteFail
  \/ WriteOK \/ WriteFail
  \/ CloseWrite
  \/ PrintFixed \/ PrintError
  \/ PrintDone

Spec == Init /\ [][Next]_vars

(* The interpreter runs the script to its end: a step that can be taken is
   taken. *)
FairSpec == Spec /\ WF_vars(Next)

(* The pieces the texts of the runs without faults are put together from. *)
Frags ==
  { <<"&">>, <<"a", "m", "p", ";">>, <<"a", "p", "o", "s", ";">>,
    <<"q", "u", "o", "t", ";">>, <<"&", "a">>, <<"m", "p", ";">>,
    <<"&", "q", "u">>, <<"o", "t", ";">>,
    <<BOM>>, <<CR>>, <<LF>>, <<"x">> }

RECURSIVE Texts(_)
Texts(n) ==
  IF n = 0 THEN {<<>>}
  ELSE Texts(n - 1) \cup {t \o f : t \in Texts(n - 1), f \in Frags}

(* One file, valid UTF-8, listed twice, and no operation of the operating
   system fails: two passes of the fixer over the same file. *)
InitFix ==
  /\ files_to_fix = <<"p1", "p1">>
  /\ exists = {"p1"}
  /\ \E t \in Texts(MaxFrags) : disk = [p \in Paths |-> IF p = "p1" THEN t ELSE <<>>]
  /\ Start

NextFix ==
  \/ ForNext \/ ForEnd
  \/ OpenReadOK
  \/ ReadOK
  \/ CloseRead
  \/ Substitute
  \/ OpenWriteOK
  \/ WriteOK
  \/ CloseWrite
  \/ PrintFixed
  \/ PrintDone

SpecFix == InitFix /\ [][NextFix]_vars

----------------------------------------------------------------------------
(* What the properties are stated with.  None of these is used by the
   script's actions. *)

Has(s, pat) ==
  \E k \in 1..(Len(s) - Len(pat) + 1) : SubSeq(s, k, k + Len(pat) - 1) = pat

Count(s, pat) ==
  Cardinality({k \in 1..(Len(s) - Len(pat) + 1) : SubSeq(s, k, k + Len(pat) - 1) = pat})

IsBom(c) == c = BOM

NotBom(c) == c # BOM

NoBom(s) == SelectSeq(s, NotBom)

HasEntity(s) == Has(s, APOS) \/ Has(s, QUOT) \/ Has(s, AMP)

Clean(s) == ~Has(s, <<BOM>>) /\ ~HasEntity(s)

(* The three entity rules in the order &apos; &quot; &amp;. *)
EntityRules(s) ==
  Replace(Replace(Replace(s, APOS, <<"'">>), QUOT, <<"\"">>), AMP, <<"&">>)

(* The four rules in the stated order: BOM, &apos;, &quot;, &amp;. *)
RulesInOrder(s) == EntityRules(Replace(s, <<BOM>>, <<>>))

(* The text f.read() returned for list entry k. *)
TextRead(k) == ReadText(snap[k])

(* Line terminators of a file: LF, CR LF, or a CR that no LF follows. *)
LineBreaks(b) ==
  Cardinality({k \in 1..Len(b) :
                 \/ b[k] = LF
                 \/ b[k] = CR /\ (k = Len(b) \/ b[k + 1] # LF)})

Line(k) == out[k]

DoneLine == <<"All files processed!", "">>

----------------------------------------------------------------------------
(* C1: per-file isolation.  Whatever entries fail, at the end every entry
   has its line: "Fixed" exactly for the entries no operation of which
   raised, "Error" exactly for the others; and when an entry is reported as
   fixed its file holds the transformed text it was read as. *)
C1_Isolation ==
  /\ pc = "done" =>
       /\ i = N + 1
       /\ Len(out) = N + 1
       /\ \A k \in 1..N :
            Line(k) = <<IF fault[k] = "none" THEN "Fixed" ELSE "Error", files_to_fix[k]>>
  /\ pc = "print_fixed" =>
       /\ fault[i] = "none"
       /\ disk[file_path] = WriteBytes(RulesInOrder(TextRead(i)))

C1_Witness ==
  /\ pc = "done"
  /\ N = 2
  /\ fault[1] # "none"
  /\ fault[2] = "none"
  /\ Line(1)[1] = "Error"
  /\ Line(2)[1] = "Fixed"

C4_LineEndings ==
  pc = "print_fixed" =>
    LET b == disk[file_path] IN
      /\ \A k \in 1..Len(b) : b[k] = LF => (k > 1 /\ b[k - 1] = CR)
      /\ \A k \in 1..Len(b) : b[k] = CR => (k < Len(b) /\ b[k + 1] = LF)
      /\ Count(b, <<CR, LF>>) = LineBreaks(snap[i])

C4_Witness ==
  /\ pc = "print_fixed"
  /\ i = 1
  /\ snap[1] = <<LF, CR, LF>>
  /\ disk[file_path] = <<CR, LF, CR, LF>>

(* C5: the report is, at every moment, one line per entry handled so far,
   in the order of the list, each naming its entry's path as fixed or as an
   error; the completion line comes once, last, after all of them; and the
   run ends. *)
ReportShape ==
  /\ Len(out) <= N + 1
  /\ \A k \in 1..Len(out) :
       IF k <= N
       THEN Line(k)[2] = files_to_fix[k] /\ Line(k)[1] \in {"Fixed", "Error"}
       ELSE Line(k) = DoneLine /\ pc = "done"
  /\ pc \notin {"final", "done"} => Len(out) = i - 1
  /\ pc = "final" => Len(out) = N
  /\ pc = "done" => Len(out) = N + 1

C5_Report == []ReportShape /\ <>(pc = "done")

C5_Witness ==
  /\ pc = "done"
  /\ N = 2
  /\ out = << <<"Fixed", files_to_fix[1]>>, <<"Error", files_to_fix[2]>>, DoneLine >>

(* C6: the text written for a fixed file is the text read with the rules
   applied in the order BOM, &apos;, &quot;, &amp;, and the file holds that
   text; &amp;apos; is written as &apos;. *)
C6_RuleOrder ==
  pc = "close_w" =>
    /\ content = RulesInOrder(TextRead(i))
    /\ disk[file_path] = WriteBytes(content)
    /\ TextRead(i) = <<"&", "a", "m", "p", ";", "a", "p", "o", "s", ";">> =>
         content = APOS

C6_Witness ==
  /\ pc = "close_w"
  /\ i = 1
  /\ snap[1] = <<"&", "a", "m", "p", ";", "a", "p", "o", "s", ";">>
  /\ disk[file_path] = APOS

(* C7: a text with no BOM and none of the three entity sequences is
   written as it was read, so the file changes in its line terminators at
   most. *)
C7_CleanFixedPoint ==
  (pc = "print_fixed" /\ Clean(TextRead(i))) =>
    /\ content = TextRead(i)
    /\ ReadText(disk[file_path]) = TextRead(i)

C7_Witness ==
  /\ pc = "print_fixed"
  /\ i = 1
  /\ Clean(TextRead(1))
  /\ Has(snap[1], <<"&">>)
  /\ Has(snap[1], <<CR>>)
  /\ Len(snap[1]) >= 5
  /\ disk[file_path] # snap[1]
  /\ content = TextRead(1)

(* C8 as stated: removing the BOMs before the entity rules gives the text
   that removing them after the entity rules gives. *)
C8_BomPosition ==
  pc = "open_w" => content = NoBom(EntityRules(TextRead(i)))

(* C8 amended: the two orders give the same text when no BOM stands inside
   an entity sequence, that is when removing the BOMs makes no new
   occurrence of &apos;, &quot; or &amp;. *)
NoBomInsideEntity(s) ==
  /\ Count(NoBom(s), APOS) = Count(s, APOS)
  /\ Count(NoBom(s), QUOT) = Count(s, QUOT)
  /\ Count(NoBom(s), AMP) = Count(s, AMP)

C8_BomPositionOutsideEntities ==
  (pc = "open_w" /\ NoBomInsideEntity(TextRead(i))) =>
    content = NoBom(EntityRules(TextRead(i)))

C8_Witness ==
  /\ pc = "open_w"
  /\ i = 1
  /\ Has(TextRead(1), <<BOM>>)
  /\ TextRead(1)[1] # BOM
  /\ HasEntity(TextRead(1))
  /\ NoBomInsideEntity(TextRead(1))
  /\ content = NoBom(EntityRules(TextRead(1)))

(* C9: at most one file is open; it is the current entry's file, open for
   reading only between open and the end of the first with block, open for
   writing only between the second open and the end of the second with
   block; nothing is open between entries, in the except clause, or at the
   completion line. *)
C9_Handles ==
  /\ Cardinality(handles) <= 1
  /\ pc \in {"read", "close_r"} => handles = {<<file_path, "r">>}
  /\ pc \in {"write", "close_w"} => handles = {<<file_path, "w">>}
  /\ pc \notin {"read", "close_r", "write", "close_w"} => handles = {}

C9_Witness ==
  /\ pc = "write"
  /\ i = 2
  /\ fault[1] = "write"
  /\ files_to_fix[1] # files_to_fix[2]
  /\ handles = {<<file_path, "w">>}

(* C10: a step changes a file, or opens one for writing, only for the
   current entry's path, at the second open or the write, and only in an
   entry none of whose operations (the open for reading and the read among
   them) has raised. *)
C10_Frame ==
  [][\A p \in Paths :
       (\/ disk'[p] # disk[p]
        \/ (p \in exists') # (p \in exists)
        \/ (<<p, "w">> \in handles' /\ <<p, "w">> \notin handles))
       => /\ i \in 1..N
          /\ p = file_path
          /\ pc \in {"open_w", "write"}
          /\ fault[i] = "none"
          /\ Decodable(snap[i])
          /\ pc = "open_w" => snap[i] = disk[p]]_vars

C10_Witness ==
  /\ pc = "done"
  /\ N = 2
  /\ fault[1] = "read"
  /\ fault[2] = "open_r"
  /\ \A p \in Paths : p \in exists
  /\ disk[files_to_fix[1]] = <<BAD>>
  /\ disk[files_to_fix[2]] = <<"x", CR, "y">>

====
